---- MODULE Spec2Model ----
(***************************************************************************)
(* reliable-changelog: the version calculator, the changelog renderer, the *)
(* version-store adapter and the release run, for the two revisions of the *)
(* action's entry point that the repository holds                          *)
(* (src/unnamed/part_000 and src/src/index.ts).                            *)
(*                                                                         *)
(* JavaScript strings are TLA+ strings; a JavaScript value that may be of  *)
(* several types is a tagged record ([t |-> "str", s |-> ...], ...);       *)
(* a JavaScript number is an integer, NaN or Infinity ([k |-> ...]).       *)
(***************************************************************************)
EXTENDS Integers, Sequences, FiniteSets, TLC

VARIABLES
    impl,               \* which revision of the entry point runs
    input,              \* the action's inputs (core.getInput), a record
    file,               \* the version file on disk: [start, doc, writes]
    provider,           \* the text the commit-history provider will emit
    pc,                 \* position of run() (or of the function under check)
    oldVersion,         \* run(): let oldVersion
    versionFileContents,\* run(): let versionFileContents
    dirtyChangelog,     \* run(): const dirtyChangelog
    newVersion,         \* run(): let newVersion
    stringChangelog,    \* run(): let stringChangelog
    gitTag,             \* run(): let gitTag
    commandsRun,        \* the git commands issued so far, in order
    failed,             \* the messages given to core.setFailed, in order
    warnings,           \* the messages given to core.warning, in order
    outputs,            \* the outputs set with core.setOutput, in order
    pushed              \* the push command: "none", "running", "ok", "failed"

vars == <<impl, input, file, provider, pc, oldVersion, versionFileContents,
          dirtyChangelog, newVersion, stringChangelog, gitTag, commandsRun,
          failed, warnings, outputs, pushed>>

(***************************************************************************)
(* Bounds of the model.                                                    *)
(***************************************************************************)
\* the longest changelog, in lines, the calculator is run on exhaustively
MaxCalcLines == 2

\* the longest changelog, in lines, the renderer is run on exhaustively
MaxFilterLines == 3

(***************************************************************************)
(* JavaScript strings.                                                     *)
(***************************************************************************)
Char(s, i) == SubSeq(s, i, i)

\* p occurs in s at position i (1-based)
OccursAt(s, i, p) ==
    i >= 1 /\ i + Len(p) - 1 <= Len(s) /\ SubSeq(s, i, i + Len(p) - 1) = p

\* String.prototype.includes
Includes(s, p) == \E i \in 1..(Len(s) - Len(p) + 1) : OccursAt(s, i, p)

\* String.prototype.startsWith
StartsWith(s, p) == Len(p) <= Len(s) /\ SubSeq(s, 1, Len(p)) = p

\* String.prototype.substring(start) with a 0-based start
Substring(s, start) ==
    IF start >= Len(s) THEN "" ELSE SubSeq(s, start + 1, Len(s))

\* String.prototype.substring(start, end)
Substring2(s, start, end) ==
    LET e == IF end > Len(s) THEN Len(s) ELSE end
    IN  IF start >= e THEN "" ELSE SubSeq(s, start + 1, e)

\* String.prototype.lastIndexOf for a one-character needle (0-based, -1 if none)
LastIndexOf(s, c) ==
    LET hits == {i \in 1..Len(s) : Char(s, i) = c}
    IN  IF hits = {} THEN -1
        ELSE (CHOOSE i \in hits : \A j \in hits : j <= i) - 1

RECURSIVE SplitFrom(_, _, _, _)
SplitFrom(s, sep, i, cur) ==
    IF i > Len(s) THEN <<cur>>
    ELSE IF Char(s, i) = sep THEN <<cur>> \o SplitFrom(s, sep, i + 1, "")
    ELSE SplitFrom(s, sep, i + 1, cur \o Char(s, i))

\* String.prototype.split for a one-character separator
Split(s, sep) == SplitFrom(s, sep, 1, "")

RECURSIVE Join(_, _)
\* Array.prototype.join
Join(parts, sep) ==
    IF Len(parts) = 0 THEN ""
    ELSE IF Len(parts) = 1 THEN parts[1]
    ELSE parts[1] \o sep \o Join(Tail(parts), sep)

IsSpace(c) == c \in {" ", "\n", "\t"}

RECURSIVE TrimStart(_)
TrimStart(s) ==
    IF Len(s) > 0 /\ IsSpace(Char(s, 1)) THEN TrimStart(Substring(s, 1)) ELSE s

RECURSIVE TrimEnd(_)
TrimEnd(s) ==
    IF Len(s) > 0 /\ IsSpace(Char(s, Len(s)))
    THEN TrimEnd(SubSeq(s, 1, Len(s) - 1)) ELSE s

\* String.prototype.trim
Trim(s) == TrimEnd(TrimStart(s))

\* Array.prototype.includes
ArrayIncludes(arr, x) == \E i \in 1..Len(arr) : arr[i] = x

(***************************************************************************)
(* JavaScript numbers: an integer, NaN or Infinity.                        *)
(***************************************************************************)
JsInt(n) == [k |-> "int", n |-> n]
NaN == [k |-> "NaN"]
Infinity == [k |-> "Infinity"]

DigitChars == "0123456789"
IsDigit(c) == \E d \in 0..9 : Char(DigitChars, d + 1) = c
DigitVal(c) == CHOOSE d \in 0..9 : Char(DigitChars, d + 1) = c

RECURSIVE ParseDigits(_, _, _)
ParseDigits(s, i, acc) ==
    IF i > Len(s) \/ ~IsDigit(Char(s, i)) THEN acc
    ELSE ParseDigits(s, i + 1, acc * 10 + DigitVal(Char(s, i)))

\* parseInt(string): leading white space, an optional sign, then the longest
\* run of decimal digits; NaN when there is no digit
ParseInt(str) ==
    LET s == TrimStart(str)
        neg == StartsWith(s, "-")
        body == IF neg \/ StartsWith(s, "+") THEN Substring(s, 1) ELSE s
    IN  IF Len(body) = 0 \/ ~IsDigit(Char(body, 1)) THEN NaN
        ELSE JsInt((IF neg THEN -1 ELSE 1) * ParseDigits(body, 1, 0))

\* number + number
JsAdd(a, b) ==
    IF a.k = "NaN" \/ b.k = "NaN" THEN NaN
    ELSE IF a.k = "Infinity" \/ b.k = "Infinity" THEN Infinity
    ELSE JsInt(a.n + b.n)

\* CeilDiv with Math.floor in place of Math.ceil
FloorDiv(n, d) ==
    IF d.k = "NaN" THEN NaN
    ELSE IF d.k = "Infinity" THEN JsInt(0)
    ELSE IF d.n = 0 THEN (IF n = 0 THEN NaN ELSE Infinity)
    ELSE IF d.n > 0 THEN JsInt(n \div d.n)
    ELSE JsInt(-((n + (-d.n) - 1) \div (-d.n)))

\* Math.ceil(n / d) for a count n >= 0 and a number d
CeilDiv(n, d) ==
    IF d.k = "NaN" THEN NaN
    ELSE IF d.k = "Infinity" THEN JsInt(0)
    ELSE IF d.n = 0 THEN (IF n = 0 THEN NaN ELSE Infinity)
    ELSE IF d.n > 0 THEN JsInt((n + d.n - 1) \div d.n)
    ELSE JsInt(-(n \div (-d.n)))

\* number == 0
JsIsZero(a) == a.k = "int" /\ a.n = 0

\* a number inside a template literal
NumToString(a) ==
    IF a.k = "int" THEN ToString(a.n)
    ELSE IF a.k = "NaN" THEN "NaN" ELSE "Infinity"

\* arr[i] (0-based) inside a template literal or given to parseInt: a missing
\* element is undefined, which both turn into the text "undefined"
ElementText(arr, i) == IF i + 1 <= Len(arr) THEN arr[i + 1] ELSE "undefined"

(***************************************************************************)
(* JavaScript values of several possible types, and property access.       *)
(***************************************************************************)
Str(s) == [t |-> "str", s |-> s]
Num(n) == [t |-> "num", n |-> n]
Obj(o) == [t |-> "obj", o |-> o]
Arr(a) == [t |-> "arr", a |-> a]
Undefined == [t |-> "undefined"]
Null == [t |-> "null"]

\* typeof v
TypeOf(v) ==
    CASE v.t = "str" -> "string"
      [] v.t = "num" -> "number"
      [] v.t = "undefined" -> "undefined"
      [] OTHER -> "object"

\* v[key] for a string key that is no built-in property: a TypeError on
\* undefined and null, undefined where there is no such property
Get(v, key) ==
    IF v.t \in {"undefined", "null"} THEN [threw |-> TRUE, v |-> Undefined]
    ELSE IF v.t = "obj" /\ key \in DOMAIN v.o THEN [threw |-> FALSE, v |-> v.o[key]]
    ELSE [threw |-> FALSE, v |-> Undefined]

RECURSIVE WalkSteps(_, _, _)
\* versionParent after `versionParent = versionParent[steps[i]]` for the
\* first n steps
WalkSteps(json, steps, n) ==
    IF n = 0 THEN [threw |-> FALSE, v |-> json]
    ELSE LET parent == WalkSteps(json, steps, n - 1)
         IN  IF parent.threw THEN parent ELSE Get(parent.v, steps[n])

(***************************************************************************)
(* The version-store adapter.                                              *)
(***************************************************************************)
\* the message of the non-string-leaf failure
NotStringMessage(lastProperty, v) ==
    "Expected version property \"" \o lastProperty
        \o "\" to be of type \"string\" but was of type \"" \o TypeOf(v) \o "\"."

\* the message of the unsupported-extension failure
UnsupportedMessage(versionFilePath, extension) ==
    "Expected version file \"" \o versionFilePath
        \o "\" to end with \".json\", \".toml\", \".yaml\", or \".yml\", but it ended with \"."
        \o extension \o "\"."

\* tomlPropRegex: the text later given to String.prototype.match
tomlPropRegex(propertyName) == "/" \o propertyName \o " = \"(.*)\"/"

\* the message of the failure of the toml match
NoMatchMessage(propertyName) ==
    "Expected version property \"" \o propertyName \o "\" to match regex \""
        \o tomlPropRegex(propertyName) \o "\" but it did not."

\* text.match(tomlPropRegex(propertyName)): the text is made a regular
\* expression as it stands, so its two slashes are literal characters; the
\* leftmost match, its group (.*) greedy and within one line
TomlMatch(text, propertyName) ==
    LET pre == "/" \o propertyName \o " = \""
        post == "\"/"
        Ends(i) == {e \in (i + Len(pre))..(Len(text) - 1) :
                       /\ OccursAt(text, e, post)
                       /\ \A h \in (i + Len(pre))..(e - 1) : Char(text, h) # "\n"}
        starts == {i \in 1..Len(text) :
                       OccursAt(text, i, pre) /\ Ends(i) # {}}
    IN  IF starts = {} THEN [found |-> FALSE, group |-> ""]
        ELSE LET i == CHOOSE x \in starts : \A y \in starts : x <= y
                 e == CHOOSE x \in Ends(i) : \A y \in Ends(i) : y <= x
             IN  [found |-> TRUE,
                  group |-> IF e = i + Len(pre) THEN ""
                            ELSE SubSeq(text, i + Len(pre), e - 1)]

\* walkJsonToVersion that falls back to "0.0.0" for a leaf that is no string
walkJsonToVersionFallback(json, steps) ==
    LET parent == IF json.t = "undefined" THEN [threw |-> TRUE, v |-> Undefined]
                  ELSE WalkSteps(json, steps, Len(steps) - 1)
        lastProperty == steps[Len(steps)]
        leaf == IF parent.threw THEN parent ELSE Get(parent.v, lastProperty)
    IN  IF leaf.threw THEN [threw |-> TRUE, failed |-> <<>>, v |-> Undefined]
        ELSE [threw |-> FALSE,
              failed |-> IF TypeOf(leaf.v) # "string"
                         THEN <<NotStringMessage(lastProperty, leaf.v)>> ELSE <<>>,
              v |-> IF TypeOf(leaf.v) # "string" THEN Str("0.0.0") ELSE leaf.v]

\* src/unnamed/part_000: walkJsonToVersion; JSON.parse(JSON.stringify(json))
\* copies a JSON value and throws on undefined
walkJsonToVersion(json, steps) ==
    LET parent == IF json.t = "undefined" THEN [threw |-> TRUE, v |-> Undefined]
                  ELSE WalkSteps(json, steps, Len(steps) - 1)
        lastProperty == steps[Len(steps)]
        leaf == IF parent.threw THEN parent ELSE Get(parent.v, lastProperty)
    IN  IF leaf.threw THEN [threw |-> TRUE, failed |-> <<>>, v |-> Undefined]
        ELSE [threw |-> FALSE,
              failed |-> IF TypeOf(leaf.v) # "string"
                         THEN <<NotStringMessage(lastProperty, leaf.v)>> ELSE <<>>,
              v |-> leaf.v]

\* src/unnamed/part_000: getVersionFromFile, on the parsed contents of the
\* file (the text itself for toml); yamlThrows is whether YAML.parse rejects
\* a toml text that fell through to the yaml case
getVersionFromFile(versionFilePath, extension, contents, steps, yamlThrows) ==
    LET Walked(data) ==
            LET w == walkJsonToVersion(data, steps)
            IN  [threw |-> w.threw, failed |-> w.failed, data |-> data, version |-> w.v]
    IN  CASE extension = "json" -> Walked(contents)
          [] extension = "toml" ->
                LET m == TomlMatch(contents.s, steps[1])
                IN  IF m.found
                    THEN [threw |-> FALSE, failed |-> <<>>, data |-> contents,
                          version |-> Str(m.group)]
                    ELSE IF yamlThrows
                    THEN [threw |-> TRUE, failed |-> <<NoMatchMessage(steps[1])>>,
                          data |-> Undefined, version |-> Undefined]
                    ELSE [Walked(contents) EXCEPT
                            !.failed = <<NoMatchMessage(steps[1])>> \o @]
          [] extension \in {"yaml", "yml"} -> Walked(contents)
          [] OTHER ->
                [threw |-> FALSE,
                 failed |-> <<UnsupportedMessage(versionFilePath, extension)>>,
                 data |-> Null, version |-> Str("")]

\* src/src/index.ts: getVersionFromFile; the json case walks every step and
\* then reads the last property once more, the yaml case is not implemented
getVersionFromFileIndexTs(versionFilePath, extension, contents, steps) ==
    CASE extension = "json" ->
            LET parent == WalkSteps(contents, steps, Len(steps))
                lastProperty == steps[Len(steps)]
                leaf == IF parent.threw THEN parent ELSE Get(parent.v, lastProperty)
            IN  IF leaf.threw
                THEN [threw |-> TRUE, failed |-> <<>>, data |-> Undefined,
                      version |-> Undefined]
                ELSE [threw |-> FALSE,
                      failed |-> IF TypeOf(leaf.v) # "string"
                                 THEN <<NotStringMessage(lastProperty, leaf.v)>>
                                 ELSE <<>>,
                      data |-> contents, version |-> leaf.v]
      [] extension = "toml" ->
            LET m == TomlMatch(contents.s, steps[1])
            IN  IF m.found
                THEN [threw |-> FALSE, failed |-> <<>>, data |-> contents,
                      version |-> Str(m.group)]
                ELSE [threw |-> FALSE, failed |-> <<NoMatchMessage(steps[1])>>,
                      data |-> Null, version |-> Str("")]
      [] extension \in {"yaml", "yml"} ->
            [threw |-> FALSE, failed |-> <<>>, data |-> Null, version |-> Str("")]
      [] OTHER ->
            [threw |-> FALSE,
             failed |-> <<UnsupportedMessage(versionFilePath, extension)>>,
             data |-> Null, version |-> Str("")]

RECURSIVE SetAt(_, _, _, _)
\* the document after `versionParent[lastProperty] = newVer`, the parent
\* reached from the i-th step on; a TypeError where the parent is no object
SetAt(json, steps, i, newVer) ==
    IF json.t # "obj" THEN [threw |-> TRUE, v |-> json]
    ELSE IF i = Len(steps)
    THEN [threw |-> FALSE,
          v |-> Obj([k \in DOMAIN json.o \cup {steps[i]} |->
                        IF k = steps[i] THEN Str(newVer) ELSE json.o[k]])]
    ELSE IF steps[i] \notin DOMAIN json.o THEN [threw |-> TRUE, v |-> json]
    ELSE LET child == SetAt(json.o[steps[i]], steps, i + 1, newVer)
         IN  [threw |-> child.threw,
              v |-> IF child.threw THEN json
                    ELSE Obj([json.o EXCEPT ![steps[i]] = child.v])]

\* walkAndSetVersion that puts the new version after the old one
walkAndSetVersionAppending(json, steps, newVer) ==
    LET parent == WalkSteps(json, steps, Len(steps) - 1)
        lastProperty == steps[Len(steps)]
        leaf == IF parent.threw THEN parent ELSE Get(parent.v, lastProperty)
        set == SetAt(json, steps, 1,
                     IF ~leaf.threw /\ leaf.v.t = "str" THEN leaf.v.s \o newVer
                     ELSE newVer)
    IN  IF leaf.threw \/ set.threw
        THEN [threw |-> TRUE, failed |-> <<>>, v |-> json]
        ELSE [threw |-> FALSE,
              failed |-> IF TypeOf(leaf.v) # "string"
                         THEN <<NotStringMessage(lastProperty, leaf.v)>> ELSE <<>>,
              v |-> set.v]

\* src/unnamed/part_000: walkAndSetVersion
walkAndSetVersion(json, steps, newVer) ==
    LET parent == WalkSteps(json, steps, Len(steps) - 1)
        lastProperty == steps[Len(steps)]
        leaf == IF parent.threw THEN parent ELSE Get(parent.v, lastProperty)
        set == SetAt(json, steps, 1, newVer)
    IN  IF leaf.threw \/ set.threw
        THEN [threw |-> TRUE, failed |-> <<>>, v |-> json]
        ELSE [threw |-> FALSE,
              failed |-> IF TypeOf(leaf.v) # "string"
                         THEN <<NotStringMessage(lastProperty, leaf.v)>> ELSE <<>>,
              v |-> set.v]

\* src/unnamed/part_000: updateVersionFile; writes is what fs.writeFileSync
\* was given, as [format, data]
updateVersionFile(extension, versionData, steps, newVer) ==
    LET Set(format) ==
            LET w == walkAndSetVersion(versionData, steps, newVer)
            IN  [threw |-> w.threw, failed |-> w.failed,
                 writes |-> IF w.threw THEN <<>>
                            ELSE <<[format |-> format, data |-> w.v]>>]
    IN  CASE extension = "json" -> Set("json")
          [] extension = "toml" ->
                \* the result of tomlAsStr.replace(version, newVer) is dropped
                IF versionData.t # "str" \/ ~TomlMatch(versionData.s, steps[1]).found
                THEN [threw |-> TRUE, failed |-> <<>>, writes |-> <<>>]
                ELSE [threw |-> FALSE, failed |-> <<>>,
                      writes |-> <<[format |-> "text", data |-> versionData]>>]
          [] extension \in {"yaml", "yml"} -> Set("yaml")
          [] OTHER -> [threw |-> FALSE, failed |-> <<>>, writes |-> <<>>]

\* src/src/index.ts: updateVersionFile, whose cases have no break. run()
\* calls it with the property path as versionData and the file contents as
\* steps, so the json case sets a property named "undefined" on the path
\* array, writes that array, and falls into the toml case, where
\* versionData.match is no function
updateVersionFileIndexTs(extension, versionData, steps, newVer) ==
    CASE extension = "json" ->
            IF versionData.t = "arr" /\ steps.t = "obj"
            THEN [threw |-> TRUE, failed |-> <<>>,
                  writes |-> <<[format |-> "json", data |-> versionData]>>]
            ELSE [threw |-> TRUE, failed |-> <<>>, writes |-> <<>>]
      [] extension = "toml" -> [threw |-> TRUE, failed |-> <<>>, writes |-> <<>>]
      [] OTHER -> [threw |-> FALSE, failed |-> <<>>, writes |-> <<>>]

(***************************************************************************)
(* What fs.writeFileSync is given: the text of a document.                 *)
(***************************************************************************)
\* the order in which the objects of the model list their keys (a JavaScript
\* object lists its keys in insertion order, a new key last)
KeyOrder == <<"nested", "name", "version">>

\* Object.keys(v)
KeysOf(v) == SelectSeq(KeyOrder, LAMBDA k : k \in DOMAIN v.o)

RECURSIVE Spaces(_)
Spaces(n) == IF n = 0 THEN "" ELSE " " \o Spaces(n - 1)

RECURSIVE JsonStringify(_, _)
\* JSON.stringify(v, null, 2), v at nesting depth `depth`; the strings of the
\* model hold no character that JSON escapes
JsonStringify(v, depth) ==
    LET inner == Spaces(2 * (depth + 1))
        Entry(k) == inner \o "\"" \o k \o "\": " \o JsonStringify(v.o[k], depth + 1)
        Item(x) == inner \o "\"" \o x \o "\""
    IN  CASE v.t = "str" -> "\"" \o v.s \o "\""
          [] v.t = "num" -> ToString(v.n)
          [] v.t = "null" -> "null"
          [] v.t = "arr" ->
                IF Len(v.a) = 0 THEN "[]"
                ELSE "[\n" \o Join([i \in 1..Len(v.a) |-> Item(v.a[i])], ",\n")
                         \o "\n" \o Spaces(2 * depth) \o "]"
          [] v.t = "obj" ->
                IF Len(KeysOf(v)) = 0 THEN "{}"
                ELSE "{\n" \o Join([i \in 1..Len(KeysOf(v)) |-> Entry(KeysOf(v)[i])], ",\n")
                         \o "\n" \o Spaces(2 * depth) \o "}"
          [] OTHER -> "undefined"

RECURSIVE YamlStringify(_, _)
\* YAML.stringify(v): block mappings indented by two, one line per scalar;
\* the strings of the model are ones YAML writes plain
YamlStringify(v, depth) ==
    LET Entry(k) ==
            IF v.o[k].t = "obj" /\ Len(KeysOf(v.o[k])) > 0
            THEN Spaces(2 * depth) \o k \o ":\n" \o YamlStringify(v.o[k], depth + 1)
            ELSE Spaces(2 * depth) \o k \o ": " \o YamlStringify(v.o[k], depth + 1)
    IN  CASE v.t = "str" -> v.s \o "\n"
          [] v.t = "num" -> ToString(v.n) \o "\n"
          [] v.t = "null" -> "null\n"
          [] v.t = "obj" ->
                IF Len(KeysOf(v)) = 0 THEN "{}\n"
                ELSE Join([i \in 1..Len(KeysOf(v)) |-> Entry(KeysOf(v)[i])], "")
          [] OTHER -> "\n"

\* the text one call of fs.writeFileSync puts on disk
WrittenText(write) ==
    CASE write.format = "json" -> JsonStringify(write.data, 0)
      [] write.format = "yaml" -> YamlStringify(write.data, 0)
      [] OTHER -> write.data.s

(***************************************************************************)
(* The version calculator.                                                 *)
(***************************************************************************)
\* the pattern `* ${commitType}:` a line is tested against
TypePattern(commitType) == "* " \o commitType \o ":"

\* the pattern `* ${majorReleaseCommitMessage}`
MajorPattern(majorReleaseCommitMessage) == "* " \o majorReleaseCommitMessage

\* the counters of calcTrueNewVersionFromLog before the first line
NoCounts == [isMajorChange |-> FALSE, numPatches |-> 0, numMinor |-> 0]

\* CountCommitType without the default for a type of neither set
CountCommitTypeNoDefault(logLine, commitType, minorCommitTypes, patchCommitTypes, acc) ==
    IF Includes(logLine, TypePattern(commitType))
    THEN IF ArrayIncludes(minorCommitTypes, commitType)
         THEN [acc EXCEPT !.numMinor = @ + 1]
         ELSE IF ArrayIncludes(patchCommitTypes, commitType)
         THEN [acc EXCEPT !.numPatches = @ + 1]
         ELSE acc
    ELSE acc

\* the body of `for (const commitType of includedTypes)` for one commit type
CountCommitType(logLine, commitType, minorCommitTypes, patchCommitTypes, acc) ==
    IF Includes(logLine, TypePattern(commitType))
    THEN IF ArrayIncludes(minorCommitTypes, commitType)
         THEN [acc EXCEPT !.numMinor = @ + 1]
         ELSE IF ArrayIncludes(patchCommitTypes, commitType)
         THEN [acc EXCEPT !.numPatches = @ + 1]
         ELSE IF commitType = "feat"
         THEN [acc EXCEPT !.numMinor = @ + 1]
         ELSE [acc EXCEPT !.numPatches = @ + 1]
    ELSE acc

RECURSIVE CountIncludedTypes(_, _, _, _, _, _)
\* `for (const commitType of includedTypes)`, from the i-th type on
CountIncludedTypes(logLine, includedTypes, minorCommitTypes, patchCommitTypes, i, acc) ==
    IF i > Len(includedTypes) THEN acc
    ELSE CountIncludedTypes(logLine, includedTypes, minorCommitTypes,
            patchCommitTypes, i + 1,
            CountCommitType(logLine, includedTypes[i], minorCommitTypes,
                            patchCommitTypes, acc))

\* the major-marker test made on every line
CountMajor(logLine, majorReleaseCommitMessage, acc) ==
    IF Includes(logLine, MajorPattern(majorReleaseCommitMessage))
    THEN [acc EXCEPT !.isMajorChange = TRUE]
    ELSE acc

\* src/src/index.ts only: the counts made before the loop over the included
\* types, for `* feat:` and for `* fix:` or `* build:`
CountHardCoded(logLine, acc) ==
    IF Includes(logLine, "* feat:") THEN [acc EXCEPT !.numMinor = @ + 1]
    ELSE IF Includes(logLine, "* fix:") \/ Includes(logLine, "* build:")
    THEN [acc EXCEPT !.numPatches = @ + 1]
    ELSE acc

RECURSIVE CountLines(_, _, _, _, _, _, _)
\* src/unnamed/part_000: changelog.split("\n").forEach(...), from the j-th line on
CountLines(lines, majorReleaseCommitMessage, minorCommitTypes, patchCommitTypes, includedTypes, j, acc) ==
    IF j > Len(lines) THEN acc
    ELSE CountLines(lines, majorReleaseCommitMessage, minorCommitTypes,
            patchCommitTypes, includedTypes, j + 1,
            CountIncludedTypes(lines[j], includedTypes, minorCommitTypes,
                patchCommitTypes, 1,
                CountMajor(lines[j], majorReleaseCommitMessage, acc)))

RECURSIVE CountLinesIndexTs(_, _, _, _, _, _, _)
\* src/src/index.ts: changelog.split("\n").forEach(...), from the j-th line on
CountLinesIndexTs(lines, majorReleaseCommitMessage, minorCommitTypes, patchCommitTypes, includedTypes, j, acc) ==
    IF j > Len(lines) THEN acc
    ELSE CountLinesIndexTs(lines, majorReleaseCommitMessage, minorCommitTypes,
            patchCommitTypes, includedTypes, j + 1,
            CountIncludedTypes(lines[j], includedTypes, minorCommitTypes,
                patchCommitTypes, 1,
                CountHardCoded(lines[j],
                    CountMajor(lines[j], majorReleaseCommitMessage, acc))))

\* VersionText that keeps minor and patch on a major change
VersionTextNoReset(currentVersion, acc, minorCommitBumpInterval, patchCommitBumpInterval) ==
    LET versions == Split(currentVersion, ".")
        minorAdded == CeilDiv(acc.numMinor, minorCommitBumpInterval)
        major == IF acc.isMajorChange
                 THEN NumToString(JsAdd(ParseInt(ElementText(versions, 0)), JsInt(1)))
                 ELSE ElementText(versions, 0)
        minor == NumToString(JsAdd(ParseInt(ElementText(versions, 1)), minorAdded))
        patch == IF JsIsZero(minorAdded)
                 THEN NumToString(JsAdd(ParseInt(ElementText(versions, 2)),
                          CeilDiv(acc.numPatches, patchCommitBumpInterval)))
                 ELSE "0"
    IN  major \o "." \o minor \o "." \o patch

\* the returned template literal, from the counters
VersionText(currentVersion, acc, minorCommitBumpInterval, patchCommitBumpInterval) ==
    LET versions == Split(currentVersion, ".")
        minorAdded == CeilDiv(acc.numMinor, minorCommitBumpInterval)
        major == IF acc.isMajorChange
                 THEN NumToString(JsAdd(ParseInt(ElementText(versions, 0)), JsInt(1)))
                 ELSE ElementText(versions, 0)
        minor == IF ~acc.isMajorChange
                 THEN NumToString(JsAdd(ParseInt(ElementText(versions, 1)), minorAdded))
                 ELSE "0"
        patch == IF ~acc.isMajorChange /\ JsIsZero(minorAdded)
                 THEN NumToString(JsAdd(ParseInt(ElementText(versions, 2)),
                          CeilDiv(acc.numPatches, patchCommitBumpInterval)))
                 ELSE "0"
    IN  major \o "." \o minor \o "." \o patch

\* src/unnamed/part_000: calcTrueNewVersionFromLog
calcTrueNewVersionFromLog(currentVersion, changelog, majorReleaseCommitMessage, minorCommitTypes, patchCommitTypes, includedTypes, minorCommitBumpInterval, patchCommitBumpInterval) ==
    VersionText(currentVersion,
        CountLines(Split(changelog, "\n"), majorReleaseCommitMessage,
            minorCommitTypes, patchCommitTypes, includedTypes, 1, NoCounts),
        minorCommitBumpInterval, patchCommitBumpInterval)

\* src/src/index.ts: calcTrueNewVersionFromLog
calcTrueNewVersionFromLogIndexTs(currentVersion, changelog, majorReleaseCommitMessage, minorCommitTypes, patchCommitTypes, includedTypes, minorCommitBumpInterval, patchCommitBumpInterval) ==
    VersionText(currentVersion,
        CountLinesIndexTs(Split(changelog, "\n"), majorReleaseCommitMessage,
            minorCommitTypes, patchCommitTypes, includedTypes, 1, NoCounts),
        minorCommitBumpInterval, patchCommitBumpInterval)

(***************************************************************************)
(* The changelog renderer.                                                 *)
(***************************************************************************)
\* the keys of typeOutputs, in the order Object.keys gives them
CanonicalTypes ==
    <<"feat", "fix", "build", "docs", "ci", "perf", "refactor", "revert",
      "style", "test">>

IsCanonical(commitType) == ArrayIncludes(CanonicalTypes, commitType)

\* the sectionLabels object of run(), with the labels action.yml defaults to
sectionLabels ==
    [t \in {CanonicalTypes[i] : i \in 1..Len(CanonicalTypes)} |->
        CASE t = "feat" -> "New Features"
          [] t = "fix" -> "Bug Fixes"
          [] t = "build" -> "Build Pipeline Improvements"
          [] t = "docs" -> "Documentation Changes"
          [] t = "ci" -> "CI Changes"
          [] t = "perf" -> "Performance Improvements"
          [] t = "refactor" -> "Refactoring"
          [] t = "revert" -> "Reverted Changes"
          [] t = "style" -> "Styling Changes"
          [] t = "test" -> "Testing Changes"]

\* the names typeOutputs, an object literal, inherits from Object.prototype
\* with a value whose length is not above 0: three functions of no parameter
\* and the prototype itself (its length is undefined)
InheritedNoLength == {"toString", "toLocaleString", "valueOf", "__proto__"}

\* typeOutputs as filterChangeLog creates it; threw records a TypeError
NoTypeOutputs ==
    [buckets |-> [t \in DOMAIN sectionLabels |-> <<>>], threw |-> FALSE]

\* logLine.substring(commitType.length + 3), less one leading space
StrippedCommit(logLine, commitType) ==
    LET strippedCommit == Substring(logLine, Len(commitType) + 3)
    IN  IF StartsWith(strippedCommit, " ") THEN Substring(strippedCommit, 1)
        ELSE strippedCommit

\* src/unnamed/part_000: bulletPointToPush
BulletPoint(logLine, commitType, stripCommitPrefix) ==
    IF stripCommitPrefix THEN "* " \o StrippedCommit(logLine, commitType)
    ELSE logLine

\* src/src/index.ts: bulletPointToPush
BulletPointIndexTs(logLine, commitType, stripCommitPrefix) ==
    IF stripCommitPrefix THEN "* " \o StrippedCommit(logLine, commitType) \o ":"
    ELSE logLine

\* which of the two bullet renderings a revision uses
BulletOf(rev, logLine, commitType, stripCommitPrefix) ==
    IF rev = "part_000" THEN BulletPoint(logLine, commitType, stripCommitPrefix)
    ELSE BulletPointIndexTs(logLine, commitType, stripCommitPrefix)

\* the condition under which a line is pushed to a type's bucket
IsBucketed(logLine, commitType, majorReleaseCommitMessage) ==
    /\ Includes(logLine, TypePattern(commitType))
    /\ ~Includes(logLine, MajorPattern(majorReleaseCommitMessage))

\* the body of the bucketing loop for one commit type:
\* typeOutputs[commitType].push(...) throws when typeOutputs has no such key
BucketCommitType(rev, logLine, commitType, stripCommitPrefix, majorReleaseCommitMessage, acc) ==
    IF acc.threw \/ ~IsBucketed(logLine, commitType, majorReleaseCommitMessage)
    THEN acc
    ELSE IF ~IsCanonical(commitType) THEN [acc EXCEPT !.threw = TRUE]
    ELSE [acc EXCEPT !.buckets[commitType] =
              Append(@, BulletOf(rev, logLine, commitType, stripCommitPrefix))]

RECURSIVE BucketIncludedTypes(_, _, _, _, _, _, _)
BucketIncludedTypes(rev, logLine, includedTypes, stripCommitPrefix, majorReleaseCommitMessage, i, acc) ==
    IF i > Len(includedTypes) THEN acc
    ELSE BucketIncludedTypes(rev, logLine, includedTypes, stripCommitPrefix,
            majorReleaseCommitMessage, i + 1,
            BucketCommitType(rev, logLine, includedTypes[i], stripCommitPrefix,
                             majorReleaseCommitMessage, acc))

RECURSIVE BucketLines(_, _, _, _, _, _, _)
\* changelog.split("\n").forEach(...) of filterChangeLog, from the j-th line on
BucketLines(rev, lines, includedTypes, stripCommitPrefix, majorReleaseCommitMessage, j, acc) ==
    IF j > Len(lines) THEN acc
    ELSE BucketLines(rev, lines, includedTypes, stripCommitPrefix,
            majorReleaseCommitMessage, j + 1,
            BucketIncludedTypes(rev, lines[j], includedTypes, stripCommitPrefix,
                                majorReleaseCommitMessage, 1, acc))

RECURSIVE PushSectionsAlways(_, _, _, _)
\* PushSections without the test for an empty bucket
PushSectionsAlways(includedTypes, typeOutputs, i, acc) ==
    IF i > Len(includedTypes) \/ acc.threw THEN acc
    ELSE IF includedTypes[i] \in InheritedNoLength
    THEN PushSectionsAlways(includedTypes, typeOutputs, i + 1, acc)
    ELSE IF ~IsCanonical(includedTypes[i]) THEN [acc EXCEPT !.threw = TRUE]
    ELSE PushSectionsAlways(includedTypes, typeOutputs, i + 1,
            [acc EXCEPT !.output =
                @ \o <<sectionLabels[includedTypes[i]]>>
                  \o typeOutputs[includedTypes[i]] \o <<"">>])

RECURSIVE PushSectionsSkipping(_, _, _, _)
\* PushSections that passes over every type typeOutputs has no bucket for
PushSectionsSkipping(includedTypes, typeOutputs, i, acc) ==
    IF i > Len(includedTypes) \/ acc.threw THEN acc
    ELSE IF ~IsCanonical(includedTypes[i])
    THEN PushSectionsSkipping(includedTypes, typeOutputs, i + 1, acc)
    ELSE LET typeOutput == typeOutputs[includedTypes[i]]
         IN  PushSectionsSkipping(includedTypes, typeOutputs, i + 1,
                IF Len(typeOutput) > 0
                THEN [acc EXCEPT !.output =
                        @ \o <<sectionLabels[includedTypes[i]]>> \o typeOutput \o <<"">>]
                ELSE acc)

RECURSIVE PushSections(_, _, _, _)
\* the loop that pushes label, bullets and "" per included type, from the
\* i-th type on. For a name typeOutputs has no bucket for, typeOutputs[name]
\* is what the object inherits: nothing (reading .length throws), a function
\* with parameters (its length is above 0 and spreading it throws), or a
\* value whose length is not above 0 (the type is passed over)
PushSections(includedTypes, typeOutputs, i, acc) ==
    IF i > Len(includedTypes) \/ acc.threw THEN acc
    ELSE IF includedTypes[i] \in InheritedNoLength
    THEN PushSections(includedTypes, typeOutputs, i + 1, acc)
    ELSE IF ~IsCanonical(includedTypes[i]) THEN [acc EXCEPT !.threw = TRUE]
    ELSE LET typeOutput == typeOutputs[includedTypes[i]]
         IN  PushSections(includedTypes, typeOutputs, i + 1,
                IF Len(typeOutput) > 0
                THEN [acc EXCEPT !.output =
                        @ \o <<sectionLabels[includedTypes[i]]>> \o typeOutput \o <<"">>]
                ELSE acc)

\* the text of the advisory for a commit type
WarningMessage(commitType) ==
    "There were commits for " \o commitType
        \o " but it is not included in \"includeTypes\""

RECURSIVE CollectWarnings(_, _, _)
\* the loop over Object.keys(typeOutputs) that calls core.warning
CollectWarnings(includedTypes, typeOutputs, i) ==
    IF i > Len(CanonicalTypes) THEN <<>>
    ELSE (IF /\ Len(typeOutputs[CanonicalTypes[i]]) > 0
             /\ ~ArrayIncludes(includedTypes, CanonicalTypes[i])
          THEN <<WarningMessage(CanonicalTypes[i])>> ELSE <<>>)
         \o CollectWarnings(includedTypes, typeOutputs, i + 1)

\* filterChangeLog of either revision (they differ in the bullet only):
\* [threw, output, warnings]
filterChangeLog(rev, changelog, stripCommitPrefix, majorReleaseCommitMessage, includedTypes) ==
    LET bucketed == BucketLines(rev, Split(changelog, "\n"), includedTypes,
                        stripCommitPrefix, majorReleaseCommitMessage, 1,
                        NoTypeOutputs)
        sections == IF bucketed.threw THEN [output |-> <<>>, threw |-> TRUE]
                  ELSE PushSections(includedTypes, bucketed.buckets, 1,
                                    [output |-> <<>>, threw |-> FALSE])
    IN  IF sections.threw
        THEN [threw |-> TRUE, output |-> "", warnings |-> <<>>]
        ELSE [threw |-> FALSE,
              output |-> Join(sections.output, "\n"),
              warnings |-> CollectWarnings(includedTypes, bucketed.buckets, 1)]

(***************************************************************************)
(* Inputs.                                                                 *)
(***************************************************************************)
\* the two revisions of the entry point
Revisions == {"part_000", "index_ts"}

SeqsUpTo(S, n) == UNION {[1..k -> S] : k \in 0..n}

\* action.yml: default of major-release-commit-message
DefaultMajorMessage == "feat: major release"

\* action.yml: default of patch-commit-types
DefaultPatchTypes == "fix,build,docs,ci,perf,refactor,revert,style,test"

\* the changelog of the sub-threshold scenario
ScenarioA == "* feat: add x\n* feat: add y\n* fix: bug"

\* the lines the calculator is run on
CalcLines ==
    {"* feat: add x", "* fix: bug", "* feat: major release", "* docs: readme",
     "* fix: see * build: log"}

CalcChangelogs ==
    {Join(ls, "\n") : ls \in SeqsUpTo(CalcLines, MaxCalcLines)} \cup {ScenarioA}

\* the lines the renderer is run on
FilterLines ==
    {"* feat: add x", "* fix: correct overflow", "* feat: major release",
     "* docs: readme", "- * fix: x", "* fix: see * build: log"}

FilterChangelogs == {Join(ls, "\n") : ls \in SeqsUpTo(FilterLines, MaxFilterLines)}

\* the inputs no check varies
BaseInput ==
    [currentVersion |-> "1.2.3",
     versionPath |-> "version",
     stripCommitPrefix |-> TRUE,
     majorReleaseCommitMessage |-> DefaultMajorMessage,
     includedTypes |-> "feat,fix,build",
     minorCommitTypes |-> "feat",
     minorVersionBumpInterval |-> "5",
     patchCommitTypes |-> DefaultPatchTypes,
     patchVersionBumpInterval |-> "5",
     tagPrefix |-> "v",
     gitMessage |-> "chore(release): {version}"]

CalcInputs ==
    {[BaseInput EXCEPT !.currentVersion = v, !.includedTypes = inc,
                       !.minorCommitTypes = mi, !.patchCommitTypes = pa,
                       !.minorVersionBumpInterval = mk,
                       !.patchVersionBumpInterval = pk] :
        v \in {"1.2.3", "2.5.1"},
        inc \in {"feat,fix,build", "fix,feat,docs", "fix,docs"},
        mi \in {"feat", "docs"},
        pa \in {"fix", DefaultPatchTypes},
        mk \in {"0", "1", "2", "5"},
        pk \in {"1", "5"}}

FilterInputs ==
    {[BaseInput EXCEPT !.stripCommitPrefix = st, !.includedTypes = inc] :
        st \in BOOLEAN,
        inc \in {"feat,fix,build", "fix,feat,docs", "docs", "feat,chore",
                 "feat,toString"}}

\* a version file holding a document: file is [start, doc, writes], the
\* contents on disk when the run starts, the contents now, and what
\* fs.writeFileSync was given so far
FileOf(d) == [start |-> d, doc |-> d, writes |-> <<>>]

\* no version file
NoFile == FileOf(Undefined)

\* the variables a run has not assigned yet
Unassigned ==
    /\ oldVersion = Undefined
    /\ versionFileContents = Undefined
    /\ newVersion = ""
    /\ stringChangelog = ""
    /\ gitTag = ""
    /\ commandsRun = <<>>
    /\ failed = <<>>
    /\ warnings = <<>>
    /\ outputs = <<>>
    /\ pushed = "none"

(***************************************************************************)
(* The calculator and the renderer on their own: each is applied once to   *)
(* inputs drawn from the sets above.                                       *)
(***************************************************************************)
\* calcTrueNewVersionFromLog of a revision, with the arguments run() gives it
CalcOf(rev, currentVersion, changelog, in) ==
    IF rev = "part_000"
    THEN calcTrueNewVersionFromLog(currentVersion, changelog,
            in.majorReleaseCommitMessage, Split(in.minorCommitTypes, ","),
            Split(in.patchCommitTypes, ","), Split(in.includedTypes, ","),
            ParseInt(in.minorVersionBumpInterval),
            ParseInt(in.patchVersionBumpInterval))
    ELSE calcTrueNewVersionFromLogIndexTs(currentVersion, changelog,
            in.majorReleaseCommitMessage, Split(in.minorCommitTypes, ","),
            Split(in.patchCommitTypes, ","), Split(in.includedTypes, ","),
            ParseInt(in.minorVersionBumpInterval),
            ParseInt(in.patchVersionBumpInterval))

\* filterChangeLog of a revision, with the arguments run() gives it
FilterOf(rev, changelog, in) ==
    filterChangeLog(rev, changelog, in.stripCommitPrefix,
        in.majorReleaseCommitMessage, Split(in.includedTypes, ","))

InitCalc ==
    /\ impl \in Revisions
    /\ input \in CalcInputs
    /\ dirtyChangelog \in CalcChangelogs
    /\ file = NoFile
    /\ provider = ""
    /\ pc = "calc"
    /\ Unassigned

CalcStep ==
    /\ pc = "calc"
    /\ newVersion' = CalcOf(impl, input.currentVersion, dirtyChangelog, input)
    /\ pc' = "calc_done"
    /\ UNCHANGED <<impl, input, file, provider, oldVersion, versionFileContents,
                   dirtyChangelog, stringChangelog, gitTag, commandsRun, failed,
                   warnings, outputs, pushed>>

NextCalc == CalcStep

SpecCalc == InitCalc /\ [][NextCalc]_vars

InitFilter ==
    /\ impl \in Revisions
    /\ input \in FilterInputs
    /\ dirtyChangelog \in FilterChangelogs
    /\ file = NoFile
    /\ provider = ""
    /\ pc = "filter"
    /\ Unassigned

FilterStep ==
    /\ pc = "filter"
    /\ LET r == FilterOf(impl, dirtyChangelog, input)
       IN  /\ stringChangelog' = r.output
           /\ warnings' = warnings \o r.warnings
           /\ pc' = IF r.threw THEN "filter_threw" ELSE "filter_done"
    /\ UNCHANGED <<impl, input, file, provider, oldVersion, versionFileContents,
                   dirtyChangelog, newVersion, gitTag, commandsRun, failed,
                   outputs, pushed>>

NextFilter == FilterStep

SpecFilter == InitFilter /\ [][NextFilter]_vars

(***************************************************************************)
(* run(): the release run of either revision.                              *)
(***************************************************************************)
\* the documents a json or yaml version file may hold
StoreDocs ==
    {Obj([version |-> Str("1.2.3")]),
     Obj([nested |-> Obj([version |-> Str("1.0.0")]), name |-> Str("pkg")]),
     Obj([version |-> Num(1)]),
     Obj([name |-> Str("pkg")]),
     Obj([version |-> Obj([version |-> Str("1.0.0")])]),
     Obj([nested |-> Str("x")]),
     Obj([nested |-> Obj([version |-> Null])])}

\* the texts a toml version file may hold
StoreTexts ==
    {"name = \"pkg\"\nversion = \"1.2.3\"", "/version = \"1.2.3\"/"}

\* the changelogs the provider may emit during a run
RunChangelogs == {"", "* feat: add x\n* fix: bug", "* docs: readme"}

\* runs that vary the policy, the version given literally
PolicyRuns ==
    {[input |-> [BaseInput EXCEPT !.includedTypes = inc,
                                  !.minorVersionBumpInterval = mk,
                                  !.patchVersionBumpInterval = pk],
      file |-> NoFile, provider |-> text] :
        inc \in {"feat,fix,build", "fix,feat,docs", "feat,chore", "feat,toString"},
        mk \in {"5", "1", "0", "-1", "often"},
        pk \in {"5", "0", "-2", ""},
        text \in RunChangelogs}

\* runs that vary the version file, the policy being the default one
StoreRuns ==
    {[input |-> [BaseInput EXCEPT !.currentVersion = cv, !.versionPath = vp],
      file |-> FileOf(d), provider |-> text] :
        cv \in {"./package.json", "./pubspec.yaml", "./VERSION.txt"},
        vp \in {"version", "nested.version"},
        d \in StoreDocs,
        text \in {"", "* feat: add x\n* fix: bug"}}
    \cup
    {[input |-> [BaseInput EXCEPT !.currentVersion = "./Cargo.toml"],
      file |-> FileOf(Str(t)), provider |-> text] :
        t \in StoreTexts,
        text \in {"", "* feat: add x\n* fix: bug"}}

RunConfigs == PolicyRuns \cup StoreRuns

\* const isVersionFile
isVersionFile == StartsWith(input.currentVersion, "./")

\* path.resolve(process.cwd(), currentVersion)
versionFilePath == "/work/repo/" \o Substring(input.currentVersion, 2)

\* versionFilePath.substring(versionFilePath.lastIndexOf(".") + 1)
Extension == Substring(versionFilePath, LastIndexOf(versionFilePath, ".") + 1)

\* const versionPropertyPath
versionPropertyPath == Split(input.versionPath, ".")

\* what `new Error(error)` carries for a TypeError thrown inside run()
TypeErrorMessage == "TypeError"

\* the rejection of Git.exec on a non-zero exit code
ExitMessage(command) == "Command \"" \o command \o "\" exited with code 1."

\* String.prototype.replace with a text pattern: the first occurrence only
ReplaceFirst(s, pat, rep) ==
    IF ~Includes(s, pat) THEN s
    ELSE LET at == CHOOSE i \in 1..Len(s) :
                      /\ OccursAt(s, i, pat)
                      /\ \A h \in 1..(i - 1) : ~OccursAt(s, h, pat)
         IN  SubSeq(s, 1, at - 1) \o rep \o Substring(s, at + Len(pat) - 1)

\* let gitCommitMessage, after `+= " [skip ci]"`
gitCommitMessage == input.gitMessage \o " [skip ci]"

\* the first newVersion: the first character of oldVersion plus one, then
\* the rest of oldVersion
ProvisionalVersion(old) ==
    NumToString(JsAdd(ParseInt(Substring2(old, 0, 1)), JsInt(1))) \o Substring(old, 1)

\* getVersionFromFile of a revision
GetVersionOf(rev, yamlThrows) ==
    IF rev = "part_000"
    THEN getVersionFromFile(versionFilePath, Extension, file.doc,
                            versionPropertyPath, yamlThrows)
    ELSE getVersionFromFileIndexTs(versionFilePath, Extension, file.doc,
                                   versionPropertyPath)

\* updateVersionFile of a revision, with the arguments run() gives it: the
\* call in src/src/index.ts has versionPropertyPath and versionFileContents
\* in each other's place
UpdateOf(rev) ==
    IF rev = "part_000"
    THEN updateVersionFile(Extension, versionFileContents, versionPropertyPath,
                           newVersion)
    ELSE updateVersionFileIndexTs(Extension, Arr(versionPropertyPath),
                                  versionFileContents, newVersion)

Init ==
    /\ impl \in Revisions
    /\ \E c \in RunConfigs :
          /\ input = c.input
          /\ file = c.file
          /\ provider = c.provider
    /\ dirtyChangelog = ""
    /\ pc = "is_shallow"
    /\ Unassigned

\* the catch block of run(): core.setFailed(new Error(error))
Catch(message) ==
    /\ failed' = Append(failed, message)
    /\ pc' = "done"

\* GitCommand that goes on to the next step after a command failed
GitCommandContinue(command, ok, next) ==
    /\ commandsRun' = Append(commandsRun, command)
    /\ pc' = next
    /\ failed' = IF ok THEN failed ELSE Append(failed, ExitMessage(command))

\* one awaited git command: issued, then resolved (next) or rejected (catch)
GitCommand(command, ok, next) ==
    /\ commandsRun' = Append(commandsRun, command)
    /\ IF ok THEN pc' = next /\ failed' = failed
       ELSE Catch(ExitMessage(command))

\* Git.isShallow, awaited by Git.pull
IsShallow ==
    /\ pc = "is_shallow"
    /\ \E answer \in {"true", "false", "exit 1"} :
          GitCommand("git rev-parse --is-shallow-repository", answer # "exit 1",
                     IF answer = "true" THEN "pull_unshallow" ELSE "pull")
    /\ UNCHANGED <<impl, input, file, provider, oldVersion, versionFileContents,
                   dirtyChangelog, newVersion, stringChangelog, gitTag,
                   warnings, outputs, pushed>>

\* Git.pull
Pull ==
    /\ pc \in {"pull", "pull_unshallow"}
    /\ \E ok \in BOOLEAN :
          GitCommand(IF pc = "pull_unshallow"
                     THEN "git pull --unshallow --tags --ff-only"
                     ELSE "git pull --tags --ff-only", ok, "read")
    /\ UNCHANGED <<impl, input, file, provider, oldVersion, versionFileContents,
                   dirtyChangelog, newVersion, stringChangelog, gitTag,
                   warnings, outputs, pushed>>

\* from `if (isVersionFile)` to the first assignment of newVersion;
\* oldVersion.substring throws when oldVersion is no string
ReadVersion ==
    /\ pc = "read"
    /\ \E yamlThrows \in BOOLEAN :
          LET r == IF isVersionFile THEN GetVersionOf(impl, yamlThrows)
                   ELSE [threw |-> FALSE, failed |-> <<>>, data |-> Undefined,
                         version |-> Str(input.currentVersion)]
          IN  IF r.threw
              THEN /\ failed' = failed \o r.failed \o <<TypeErrorMessage>>
                   /\ pc' = "done"
                   /\ UNCHANGED <<oldVersion, versionFileContents, newVersion>>
              ELSE /\ versionFileContents' = r.data
                   /\ oldVersion' = r.version
                   /\ IF r.version.t # "str"
                      THEN /\ failed' = failed \o r.failed \o <<TypeErrorMessage>>
                           /\ pc' = "done"
                           /\ UNCHANGED newVersion
                      ELSE /\ failed' = failed \o r.failed
                           /\ newVersion' = ProvisionalVersion(r.version.s)
                           /\ pc' = "changelog"
    /\ UNCHANGED <<impl, input, file, provider, dirtyChangelog, stringChangelog,
                   gitTag, commandsRun, warnings, outputs, pushed>>

\* generateStringChangelog: a 'data' event of the stream
ProviderData ==
    /\ pc = "changelog"
    /\ dirtyChangelog # provider
    /\ dirtyChangelog' = dirtyChangelog \o provider
    /\ UNCHANGED <<impl, input, file, provider, pc, oldVersion,
                   versionFileContents, newVersion, stringChangelog, gitTag,
                   commandsRun, failed, warnings, outputs, pushed>>

\* generateStringChangelog: the 'end' event resolves the promise
ProviderEnd ==
    /\ pc = "changelog"
    /\ dirtyChangelog = provider
    /\ pc' = "compute"
    /\ UNCHANGED <<impl, input, file, provider, oldVersion, versionFileContents,
                   dirtyChangelog, newVersion, stringChangelog, gitTag,
                   commandsRun, failed, warnings, outputs, pushed>>

\* generateStringChangelog: an 'error' event; the stream has no 'error'
\* listener and the promise is never rejected, so run() never resumes
ProviderError ==
    /\ pc = "changelog"
    /\ pc' = "stuck"
    /\ UNCHANGED <<impl, input, file, provider, oldVersion, versionFileContents,
                   dirtyChangelog, newVersion, stringChangelog, gitTag,
                   commandsRun, failed, warnings, outputs, pushed>>

\* the version and the changelog: src/unnamed/part_000 computes the version
\* from dirtyChangelog and then filters it; src/src/index.ts filters first
\* and computes the version from the filtered text
Compute ==
    /\ pc = "compute"
    /\ LET f == FilterOf(impl, dirtyChangelog, input)
           v == IF impl = "part_000"
                THEN CalcOf(impl, oldVersion.s, dirtyChangelog, input)
                ELSE CalcOf(impl, oldVersion.s, f.output, input)
       IN  IF f.threw
           THEN /\ newVersion' = IF impl = "part_000" THEN v ELSE newVersion
                /\ Catch(TypeErrorMessage)
                /\ UNCHANGED <<stringChangelog, gitTag, warnings>>
           ELSE /\ newVersion' = v
                /\ stringChangelog' = f.output
                /\ warnings' = warnings \o f.warnings
                /\ gitTag' = input.tagPrefix \o v
                /\ pc' = "update"
                /\ failed' = failed
    /\ UNCHANGED <<impl, input, file, provider, oldVersion, versionFileContents,
                   dirtyChangelog, commandsRun, outputs, pushed>>

\* `if (isVersionFile) updateVersionFile(...)`
UpdateFile ==
    /\ pc = "update"
    /\ LET u == IF isVersionFile THEN UpdateOf(impl)
                ELSE [threw |-> FALSE, failed |-> <<>>, writes |-> <<>>]
           next == IF impl = "part_000" THEN "config_email" ELSE "add"
       IN  /\ file' = [file EXCEPT
                          !.doc = IF u.writes = <<>> THEN @
                                  ELSE u.writes[Len(u.writes)].data,
                          !.writes = @ \o u.writes]
           /\ versionFileContents' =
                 IF impl = "part_000" /\ u.writes # <<>>
                 THEN u.writes[Len(u.writes)].data ELSE versionFileContents
           /\ failed' = failed \o u.failed
                            \o (IF u.threw THEN <<TypeErrorMessage>> ELSE <<>>)
           /\ pc' = IF u.threw THEN "done" ELSE next
    /\ UNCHANGED <<impl, input, provider, oldVersion, dirtyChangelog, newVersion,
                   stringChangelog, gitTag, commandsRun, warnings, outputs, pushed>>

\* src/unnamed/part_000 only: git.config("user.email", gitUserEmail)
GitConfigEmail ==
    /\ pc = "config_email"
    /\ \E ok \in BOOLEAN :
          GitCommand("git config user.email \"reliable.changelog.action@github.com\"",
                     ok, "config_name")
    /\ UNCHANGED <<impl, input, file, provider, oldVersion, versionFileContents,
                   dirtyChangelog, newVersion, stringChangelog, gitTag,
                   warnings, outputs, pushed>>

\* src/unnamed/part_000 only: git.config("user.name", gitUserName)
GitConfigName ==
    /\ pc = "config_name"
    /\ \E ok \in BOOLEAN :
          GitCommand("git config user.name \"Reliable Changelog Action\"", ok, "add")
    /\ UNCHANGED <<impl, input, file, provider, oldVersion, versionFileContents,
                   dirtyChangelog, newVersion, stringChangelog, gitTag,
                   warnings, outputs, pushed>>

\* git.add('.')
GitAdd ==
    /\ pc = "add"
    /\ \E ok \in BOOLEAN : GitCommand("git add .", ok, "commit")
    /\ UNCHANGED <<impl, input, file, provider, oldVersion, versionFileContents,
                   dirtyChangelog, newVersion, stringChangelog, gitTag,
                   warnings, outputs, pushed>>

\* git.commit(gitCommitMessage.replace('{version}', gitTag))
GitCommit ==
    /\ pc = "commit"
    /\ \E ok \in BOOLEAN :
          GitCommand("git commit -m \""
                         \o ReplaceFirst(gitCommitMessage, "{version}", gitTag)
                         \o "\"", ok, "tag")
    /\ UNCHANGED <<impl, input, file, provider, oldVersion, versionFileContents,
                   dirtyChangelog, newVersion, stringChangelog, gitTag,
                   warnings, outputs, pushed>>

\* git.createTag(gitTag)
GitCreateTag ==
    /\ pc = "tag"
    /\ \E ok \in BOOLEAN :
          GitCommand("git tag -a " \o gitTag \o " -m \"" \o gitTag \o "\"", ok, "push")
    /\ UNCHANGED <<impl, input, file, provider, oldVersion, versionFileContents,
                   dirtyChangelog, newVersion, stringChangelog, gitTag,
                   warnings, outputs, pushed>>

\* git.push(gitBranch): Git.push starts the command and neither awaits nor
\* returns its promise, so `await git.push(...)` resumes at once
GitPush ==
    /\ pc = "push"
    /\ commandsRun' = Append(commandsRun, "git push origin main --follow-tags")
    /\ pushed' = "running"
    /\ pc' = "outputs"
    /\ UNCHANGED <<impl, input, file, provider, oldVersion, versionFileContents,
                   dirtyChangelog, newVersion, stringChangelog, gitTag, failed,
                   warnings, outputs>>

\* the push command ends, with exit code 0 or not; nothing awaits it
PushSettles ==
    /\ pushed = "running"
    /\ \E ok \in BOOLEAN : pushed' = IF ok THEN "ok" ELSE "failed"
    /\ UNCHANGED <<impl, input, file, provider, pc, oldVersion,
                   versionFileContents, dirtyChangelog, newVersion,
                   stringChangelog, gitTag, commandsRun, failed, warnings, outputs>>

\* the four core.setOutput calls
SetOutputs ==
    /\ pc = "outputs"
    /\ outputs' = outputs \o
          <<[name |-> "changelog", value |-> Trim(stringChangelog)],
            [name |-> "version", value |-> newVersion],
            [name |-> "tag", value |-> gitTag],
            [name |-> "skipped", value |-> "false"]>>
    /\ pc' = "summary"
    /\ UNCHANGED <<impl, input, file, provider, oldVersion, versionFileContents,
                   dirtyChangelog, newVersion, stringChangelog, gitTag,
                   commandsRun, failed, warnings, pushed>>

\* core.summary...write(), whose failure is only warned about
WriteSummary ==
    /\ pc = "summary"
    /\ \E ok \in BOOLEAN :
          warnings' = IF ok THEN warnings
                      ELSE Append(warnings, "Was unable to create summary!")
    /\ pc' = "done"
    /\ UNCHANGED <<impl, input, file, provider, oldVersion, versionFileContents,
                   dirtyChangelog, newVersion, stringChangelog, gitTag,
                   commandsRun, failed, outputs, pushed>>

Next ==
    \/ IsShallow
    \/ Pull
    \/ ReadVersion
    \/ ProviderData
    \/ ProviderEnd
    \/ ProviderError
    \/ Compute
    \/ UpdateFile
    \/ GitConfigEmail
    \/ GitConfigName
    \/ GitAdd
    \/ GitCommit
    \/ GitCreateTag
    \/ GitPush
    \/ PushSettles
    \/ SetOutputs
    \/ WriteSummary

Spec == Init /\ [][Next]_vars

\* the runs whose every outcome of the external operations is followed to
\* the end: the default policy and a changelog that holds its header only,
\* the version given literally or read from a json file
FairConfigs ==
    {[input |-> BaseInput, file |-> NoFile, provider |-> "## 2.2.3"]}
    \cup
    {[input |-> [BaseInput EXCEPT !.currentVersion = "./package.json"],
      file |-> FileOf(Obj([version |-> Str("1.2.3")])),
      provider |-> "## 2.2.3"]}

InitFair ==
    /\ impl \in Revisions
    /\ \E c \in FairConfigs :
          /\ input = c.input
          /\ file = c.file
          /\ provider = c.provider
    /\ dirtyChangelog = ""
    /\ pc = "is_shallow"
    /\ Unassigned

\* run() under the scheduling of the event loop: a step that can be taken
\* (a continuation that is ready, an event of a child process or of the
\* stream) is taken in the end
SpecFair == InitFair /\ [][Next]_vars /\ WF_vars(Next)

(***************************************************************************)
(* The version-store adapter on its own: the version file is read once and *)
(* then updated twice with the same new version, each revision's functions *)
(* being given the arguments its run() gives them.                         *)
(***************************************************************************)
\* the version files and property paths the adapter is run on
StoreInputs ==
    {[input |-> [BaseInput EXCEPT !.currentVersion = cv, !.versionPath = vp],
      file |-> FileOf(d)] :
        cv \in {"./package.json", "./pubspec.yaml"},
        vp \in {"version", "nested.version"},
        d \in StoreDocs}
    \cup
    {[input |-> [BaseInput EXCEPT !.currentVersion = "./Cargo.toml",
                                  !.versionPath = vp],
      file |-> FileOf(Str(t))] :
        vp \in {"version", "name"},
        t \in StoreTexts}

\* the new versions the adapter is given
StoreVersions == {"1.3.0", "2.0.0"}

InitStore ==
    /\ impl \in Revisions
    /\ \E c \in StoreInputs : input = c.input /\ file = c.file
    /\ newVersion \in StoreVersions
    /\ provider = ""
    /\ dirtyChangelog = ""
    /\ pc = "store_read"
    /\ oldVersion = Undefined
    /\ versionFileContents = Undefined
    /\ stringChangelog = ""
    /\ gitTag = ""
    /\ commandsRun = <<>>
    /\ failed = <<>>
    /\ warnings = <<>>
    /\ outputs = <<>>
    /\ pushed = "none"

\* getVersionFromFile
StoreRead ==
    /\ pc = "store_read"
    /\ \E yamlThrows \in BOOLEAN :
          LET r == GetVersionOf(impl, yamlThrows)
          IN  /\ failed' = failed \o r.failed
                               \o (IF r.threw THEN <<TypeErrorMessage>> ELSE <<>>)
              /\ IF r.threw
                 THEN /\ pc' = "store_threw"
                      /\ UNCHANGED <<oldVersion, versionFileContents>>
                 ELSE /\ pc' = "store_update"
                      /\ oldVersion' = r.version
                      /\ versionFileContents' = r.data
    /\ UNCHANGED <<impl, input, file, provider, dirtyChangelog, newVersion,
                   stringChangelog, gitTag, commandsRun, warnings, outputs, pushed>>

\* updateVersionFile, a first and a second time; the json and yaml cases
\* change versionData in place
StoreUpdate ==
    /\ pc \in {"store_update", "store_again"}
    /\ LET u == UpdateOf(impl)
       IN  /\ file' = [file EXCEPT
                          !.doc = IF u.writes = <<>> THEN @
                                  ELSE u.writes[Len(u.writes)].data,
                          !.writes = @ \o u.writes]
           /\ versionFileContents' =
                 IF impl = "part_000" /\ u.writes # <<>>
                 THEN u.writes[Len(u.writes)].data ELSE versionFileContents
           /\ failed' = failed \o u.failed
                            \o (IF u.threw THEN <<TypeErrorMessage>> ELSE <<>>)
           /\ pc' = IF u.threw THEN "store_threw"
                    ELSE IF pc = "store_update" THEN "store_again"
                    ELSE "store_done"
    /\ UNCHANGED <<impl, input, provider, oldVersion, dirtyChangelog, newVersion,
                   stringChangelog, gitTag, commandsRun, warnings, outputs, pushed>>

NextStore == StoreRead \/ StoreUpdate

SpecStore == InitStore /\ [][NextStore]_vars

(***************************************************************************)
(* What the claims speak of, stated over the inputs of a check.            *)
(***************************************************************************)
\* the lines of the changelog the function under check was given
LogLines == Split(dirtyChangelog, "\n")
IncludedList == Split(input.includedTypes, ",")
MinorList == Split(input.minorCommitTypes, ",")
PatchList == Split(input.patchCommitTypes, ",")
ToSet(seq) == {seq[i] : i \in 1..Len(seq)}

\* the current version X.Y.Z as three integers
CurrentPart(i) == ParseInt(Split(input.currentVersion, ".")[i]).n

\* a version X.Y.Z as text
Dotted(x, y, z) == ToString(x) \o "." \o ToString(y) \o "." \o ToString(z)

\* ceil(n / k) for integers n >= 0, k > 0
Ceil(n, k) == CHOOSE q \in 0..n : q * k >= n /\ (q = 0 \/ (q - 1) * k < n)

HasMajorLine ==
    \E j \in 1..Len(LogLines) :
        Includes(LogLines[j], "* " \o input.majorReleaseCommitMessage)

\* a type that counts towards the minor segment: in the minor set, or `feat`
\* when it is in neither set
IsMinorType(t) ==
    t \in ToSet(MinorList) \/ (t \notin ToSet(PatchList) /\ t = "feat")

\* the (line, included type) matches: line j holds `* <type>:` of the i-th type
Matches ==
    {m \in (1..Len(LogLines)) \X (1..Len(IncludedList)) :
        Includes(LogLines[m[1]], "* " \o IncludedList[m[2]] \o ":")}

MinorMatches == {m \in Matches : IsMinorType(IncludedList[m[2]])}
PatchMatches == {m \in Matches : ~IsMinorType(IncludedList[m[2]])}

\* the lines that match an included minor type, each line once
MinorLines == {m[1] : m \in MinorMatches}

PositiveInterval(text) ==
    ParseInt(text).k = "int" /\ ParseInt(text).n > 0

MinorK == ParseInt(input.minorVersionBumpInterval).n
PatchK == ParseInt(input.patchVersionBumpInterval).n

(***************************************************************************)
(* C1                                                                      *)
(***************************************************************************)
\* C1: whenever at least one line of the changelog contains the major marker
\* `* <majorReleaseCommitMessage>`, calcTrueNewVersionFromLog (either revision)
\* returns (X+1).0.0 for current version X.Y.Z, whatever the policy and
\* whatever else the changelog holds.
Thm_C1_MajorBump ==
    (pc = "calc_done" /\ HasMajorLine)
        => newVersion = Dotted(CurrentPart(1) + 1, 0, 0)

\* Scenario C with further matching lines: 2.5.1 becomes 3.0.0
Wit_C1_MajorBump ==
    /\ pc = "calc_done"
    /\ input.currentVersion = "2.5.1"
    /\ dirtyChangelog = "* fix: bug\n* feat: major release"
    /\ input.minorVersionBumpInterval = "1"
    /\ newVersion = "3.0.0"

(***************************************************************************)
(* C2                                                                      *)
(***************************************************************************)
\* C2: with no major-marker line, N lines matching an included minor type
\* (each line counted once) and a positive minor interval K, the function of
\* either revision keeps major, adds exactly ceil(N/K) to minor, and sets
\* patch to 0 whenever minor increases.
Claim_C2_BumpIntervalLaw ==
    (pc = "calc_done" /\ ~HasMajorLine
        /\ PositiveInterval(input.minorVersionBumpInterval))
        => LET parts == Split(newVersion, ".")
               bump == Ceil(Cardinality(MinorLines), MinorK)
           IN  /\ Len(parts) = 3
               /\ parts[1] = ToString(CurrentPart(1))
               /\ parts[2] = ToString(CurrentPart(2) + bump)
               /\ (bump > 0 => parts[3] = "0")

(***************************************************************************)
(* C3                                                                      *)
(***************************************************************************)
\* the inputs of Scenario A; the scenario's minor count of 2 has `feat` among
\* the included types
IsScenarioA ==
    /\ dirtyChangelog = ScenarioA
    /\ input.currentVersion = "1.2.3"
    /\ input.minorCommitTypes = "feat"
    /\ input.patchCommitTypes = "fix"
    /\ input.minorVersionBumpInterval = "5"
    /\ input.patchVersionBumpInterval = "5"
    /\ "feat" \in ToSet(IncludedList)

\* C3 as claimed: on Scenario A the function returns 1.2.3 (no change below
\* the intervals).
Claim_C3_SubThreshold ==
    (pc = "calc_done" /\ IsScenarioA) => newVersion = "1.2.3"

\* C3 as amended: on Scenario A the minor bump is ceil(2/5) = 1, so the
\* function returns 1.3.0 (any count from 1 to the interval bumps by one).
Thm_C3_SubThreshold ==
    (pc = "calc_done" /\ IsScenarioA) => newVersion = "1.3.0"

Wit_C3_SubThreshold ==
    /\ pc = "calc_done"
    /\ IsScenarioA
    /\ impl = "part_000"
    /\ input.includedTypes = "feat,fix,build"
    /\ newVersion = "1.3.0"

(***************************************************************************)
(* C4                                                                      *)
(***************************************************************************)
\* C4: in src/unnamed/part_000, with no major-marker line, a minor count of 0
\* and positive intervals, the function returns
\* (major, minor, patch + ceil(patchCount / patchBumpInterval)), where
\* patchCount is the number of (line, included type) matches whose type is in
\* the patch set, or is in neither set and is not `feat`.
Thm_C4_PatchBump ==
    (pc = "calc_done" /\ impl = "part_000" /\ ~HasMajorLine
        /\ MinorMatches = {}
        /\ PositiveInterval(input.minorVersionBumpInterval)
        /\ PositiveInterval(input.patchVersionBumpInterval))
        => newVersion = Dotted(CurrentPart(1), CurrentPart(2),
               CurrentPart(3) + Ceil(Cardinality(PatchMatches), PatchK))

\* a line matched under a type of neither set (docs) and a line matched under
\* included patch type (fix): patchCount = 2, interval 1
Wit_C4_PatchBump ==
    /\ pc = "calc_done"
    /\ impl = "part_000"
    /\ dirtyChangelog = "* docs: readme\n* fix: see * build: log"
    /\ input.includedTypes = "fix,feat,docs"
    /\ input.minorCommitTypes = "feat"
    /\ input.patchCommitTypes = "fix"
    /\ input.patchVersionBumpInterval = "1"
    /\ input.currentVersion = "1.2.3"
    /\ Cardinality(PatchMatches) = 2
    /\ newVersion = "1.2.5"

(***************************************************************************)
(* C5                                                                      *)
(***************************************************************************)
\* the lines of the rendered changelog
RenderedLines == Split(stringChangelog, "\n")

\* the (line, included type) pairs the renderer is to bucket: line j holds
\* `* <type>:` and does not hold the major marker
BucketedMatches ==
    {m \in Matches :
        ~Includes(LogLines[m[1]], "* " \o input.majorReleaseCommitMessage)}

\* the text of a line after the first occurrence of a token
TextAfter(line, token) ==
    LET at == CHOOSE i \in 1..Len(line) :
                  /\ OccursAt(line, i, token)
                  /\ \A h \in 1..(i - 1) : ~OccursAt(line, h, token)
    IN  IF at + Len(token) > Len(line) THEN ""
        ELSE SubSeq(line, at + Len(token), Len(line))

\* the description that follows the line's `* <type>: ` token
Description(line, commitType) ==
    TextAfter(line, "* " \o commitType \o ": ")

\* C5: with prefix stripping enabled, every line bucketed under an included
\* type t is rendered (by either revision) as `* ` followed by the description
\* that follows the line's `* t: ` token, wherever in the line the token is.
Claim_C5_StripPrefix ==
    (pc = "filter_done" /\ input.stripCommitPrefix)
        => \A m \in BucketedMatches :
              Includes(LogLines[m[1]], "* " \o IncludedList[m[2]] \o ": ")
                  => ArrayIncludes(RenderedLines,
                         "* " \o Description(LogLines[m[1]], IncludedList[m[2]]))

(***************************************************************************)
(* C6                                                                      *)
(***************************************************************************)
\* the lines bucketed under a type, by line number
LinesOf(commitType) ==
    {j \in 1..Len(LogLines) :
        /\ Includes(LogLines[j], "* " \o commitType \o ":")
        /\ ~Includes(LogLines[j], "* " \o input.majorReleaseCommitMessage)}

\* the k-th smallest element of a set of numbers
Kth(S, k) == CHOOSE j \in S : Cardinality({i \in S : i <= j}) = k

\* the section of a type: nothing when no line is bucketed under it, else its
\* label, its bullets in changelog order, and one empty line
SectionOf(commitType) ==
    IF LinesOf(commitType) = {} THEN <<>>
    ELSE <<sectionLabels[commitType]>>
         \o [k \in 1..Cardinality(LinesOf(commitType)) |->
                BulletOf(impl, LogLines[Kth(LinesOf(commitType), k)],
                         commitType, input.stripCommitPrefix)]
         \o <<"">>

RECURSIVE SectionsFrom(_)
\* the sections of the included types from the i-th on, in configured order
SectionsFrom(i) ==
    IF i > Len(IncludedList) THEN <<>>
    ELSE SectionOf(IncludedList[i]) \o SectionsFrom(i + 1)

AllIncludedCanonical ==
    \A i \in 1..Len(IncludedList) : IsCanonical(IncludedList[i])

\* C6: for an included-types list of distinct names of the canonical
\* vocabulary, filterChangeLog returns the newline-joined concatenation, in
\* configured order, of one section per included type with at least one
\* bucketed line (label, bullets in changelog order, one empty line); a type
\* with no bucketed line contributes nothing.
Thm_C6_Sections ==
    (pc \in {"filter_done", "filter_threw"} /\ AllIncludedCanonical)
        => /\ pc = "filter_done"
           /\ stringChangelog = Join(SectionsFrom(1), "\n")

\* configured order fix, feat, docs: the fix section (two bullets in changelog
\* order) precedes the feat section, and docs, with no line, has no section
Wit_C6_Sections ==
    /\ pc = "filter_done"
    /\ input.includedTypes = "fix,feat,docs"
    /\ ~input.stripCommitPrefix
    /\ dirtyChangelog = "* feat: add x\n- * fix: x\n* fix: correct overflow"
    /\ stringChangelog =
         "Bug Fixes\n- * fix: x\n* fix: correct overflow\n\nNew Features\n* feat: add x\n"

(***************************************************************************)
(* C7                                                                      *)
(***************************************************************************)
\* C7: whenever a line of the changelog holds `* <type>:` for a type of the
\* canonical vocabulary that is not in the included-types list,
\* filterChangeLog raises the advisory (core.warning) for that type.
Claim_C7_Advisory ==
    pc = "filter_done"
        => \A i \in 1..Len(CanonicalTypes) :
              (/\ CanonicalTypes[i] \notin ToSet(IncludedList)
               /\ \E j \in 1..Len(LogLines) :
                     Includes(LogLines[j], "* " \o CanonicalTypes[i] \o ":"))
                  => ArrayIncludes(warnings, WarningMessage(CanonicalTypes[i]))

(***************************************************************************)
(* C8                                                                      *)
(***************************************************************************)
\* a git command that changes the repository or the remote was issued
IsMutatingCommand(command) ==
    \/ StartsWith(command, "git add")
    \/ StartsWith(command, "git commit")
    \/ StartsWith(command, "git tag")
    \/ StartsWith(command, "git push")

NoMutation ==
    /\ file.writes = <<>>
    /\ \A i \in 1..Len(commandsRun) : ~IsMutatingCommand(commandsRun[i])

\* run() is past the reading of the version
PastRead == pc \notin {"is_shallow", "pull", "pull_unshallow", "read"}

\* the run ended in a reported failure
EndedFailed == pc = "done" /\ failed # <<>>

\* an interval input that is zero, negative or not a number
BadInterval(text) == ~PositiveInterval(text)

\* C8: when the minor or the patch bump interval is zero, negative or not a
\* number, the run reports a configuration error and aborts before any
\* mutation: no version computed from it is put out, the version file is not
\* written and no git add, commit, tag or push is issued.
Claim_C8_IntervalRejected ==
    (BadInterval(input.minorVersionBumpInterval)
        \/ BadInterval(input.patchVersionBumpInterval))
        => /\ NoMutation
           /\ outputs = <<>>
           /\ (pc = "done" => failed # <<>>)

(***************************************************************************)
(* C9                                                                      *)
(***************************************************************************)
UnsupportedExtension ==
    isVersionFile /\ Extension \notin {"json", "toml", "yaml", "yml"}

\* C9: when current-version names a file whose extension is not json, toml,
\* yaml or yml, then once the file has been looked at the unsupported-format
\* error naming the extension is reported, and after it the run sets no
\* output, writes no version file and issues no git add, commit, tag or push.
Claim_C9_UnsupportedFormat ==
    (UnsupportedExtension /\ oldVersion # Undefined)
        => /\ ArrayIncludes(failed, UnsupportedMessage(versionFilePath, Extension))
           /\ NoMutation
           /\ outputs = <<>>

(***************************************************************************)
(* C10                                                                     *)
(***************************************************************************)
RECURSIVE ValueAt(_, _, _)
\* the value of a document at a property path, from the i-th segment on;
\* undefined where a segment is absent
ValueAt(doc, path, i) ==
    IF i > Len(path) THEN doc
    ELSE IF doc.t = "obj" /\ path[i] \in DOMAIN doc.o
    THEN ValueAt(doc.o[path[i]], path, i + 1)
    ELSE Undefined

\* the version file is a hierarchical document
Hierarchical == isVersionFile /\ Extension \in {"json", "yaml", "yml"}

\* an intermediate segment of the path is absent, or the leaf is no string
UnresolvablePath == ValueAt(file.start, versionPropertyPath, 1).t # "str"

\* C10: in src/unnamed/part_000, for a json or yaml version file in which an
\* intermediate segment of the property path is absent or the leaf at the
\* path is not a string, the run ends in a reported failure once the version
\* is read, and neither the version-file write nor any of git add, commit,
\* tag, push occurs.
Thm_C10_UnresolvablePath ==
    (impl = "part_000" /\ Hierarchical /\ UnresolvablePath)
        => /\ NoMutation
           /\ (PastRead => EndedFailed)

\* a leaf that is a number: the failure names the expected and the actual
\* type, and the run ends after the pull
Wit_C10_UnresolvablePath ==
    /\ impl = "part_000"
    /\ input.currentVersion = "./package.json"
    /\ input.versionPath = "version"
    /\ file.start = Obj([version |-> Num(1)])
    /\ pc = "done"
    /\ failed = <<NotStringMessage("version", Num(1)), TypeErrorMessage>>
    /\ Len(commandsRun) = 2
    /\ NoMutation

(***************************************************************************)
(* C11                                                                     *)
(***************************************************************************)
\* C11: for a json, toml or yaml version file and every new version v,
\* updateVersionFile applied twice in a row with v puts the same text on disk
\* the second time as the first: the two writes are byte-identical.
Thm_C11_Idempotent ==
    Len(file.writes) = 2
        => WrittenText(file.writes[1]) = WrittenText(file.writes[2])

\* Scenario E's document, written twice with 2.0.0
Wit_C11_Idempotent ==
    /\ pc = "store_done"
    /\ impl = "part_000"
    /\ input.currentVersion = "./package.json"
    /\ input.versionPath = "nested.version"
    /\ newVersion = "2.0.0"
    /\ Len(file.writes) = 2
    /\ WrittenText(file.writes[2]) =
         "{\n  \"nested\": {\n    \"version\": \"2.0.0\"\n  },\n  \"name\": \"pkg\"\n}"

(***************************************************************************)
(* C12                                                                     *)
(***************************************************************************)
\* the lines of the flat-text version file as it was before the read
TomlLines == Split(file.start.s, "\n")

\* the key the property path names in a flat-text file
TomlKey == versionPropertyPath[1]

\* line j is `key = "old"`
IsKeyLine(j) ==
    /\ StartsWith(TomlLines[j], TomlKey \o " = \"")
    /\ Len(TomlLines[j]) >= Len(TomlKey) + 5
    /\ Char(TomlLines[j], Len(TomlLines[j])) = "\""

\* the old value of that line
OldValue(j) == SubSeq(TomlLines[j], Len(TomlKey) + 5, Len(TomlLines[j]) - 1)

\* the text with line j holding the value v, every other byte the same
WithValue(j, v) ==
    Join([i \in 1..Len(TomlLines) |->
             IF i = j THEN TomlKey \o " = \"" \o v \o "\"" ELSE TomlLines[i]], "\n")

\* C12: for a toml version file with the line `key = "old"`, reading with
\* path [key] yields old, and updateVersionFile with v writes the text in
\* which the value of key is v and every other byte is unchanged.
Claim_C12_FlatText ==
    (Extension = "toml" /\ file.start.t = "str")
        => \A j \in 1..Len(TomlLines) :
              IsKeyLine(j)
                  => /\ pc # "store_read" => oldVersion = Str(OldValue(j))
                     /\ pc \in {"store_again", "store_done"}
                            => file.doc = Str(WithValue(j, newVersion))

(***************************************************************************)
(* C13                                                                     *)
(***************************************************************************)
RECURSIVE WithLeaf(_, _, _, _)
\* a document with the leaf at a property path (from the i-th segment on)
\* set to the string v and every other key and value as it was
WithLeaf(doc, path, i, v) ==
    IF i > Len(path) THEN Str(v)
    ELSE Obj([k \in DOMAIN doc.o |->
                 IF k = path[i] THEN WithLeaf(doc.o[k], path, i + 1, v)
                 ELSE doc.o[k]])

\* the leaf at the property path is a string
StringLeaf == ValueAt(file.start, versionPropertyPath, 1).t = "str"

\* C13: for a json or yaml version file whose leaf at the property path is a
\* string, the update step of either revision, given the arguments its run()
\* gives it, leaves on disk the document with exactly that leaf set to the new
\* version and every other key and value unchanged.
Claim_C13_UpdateFrame ==
    (Hierarchical /\ StringLeaf)
        => LET updated == WithLeaf(file.start, versionPropertyPath, 1, newVersion)
           IN  /\ file.doc \in {file.start, updated}
               /\ pc \in {"store_again", "store_done"} => file.doc = updated

(***************************************************************************)
(* C14                                                                     *)
(***************************************************************************)
\* C14: the outputs are set only after the push command has completed
\* successfully; if the push command fails, no output is set and the run
\* ends marked failed.
Claim_C14_PushFailure ==
    /\ outputs # <<>> => pushed = "ok"
    /\ (pushed = "failed" /\ pc = "done") => failed # <<>>

(***************************************************************************)
(* C15                                                                     *)
(***************************************************************************)
\* C15: every started run eventually reaches full completion (outputs set)
\* or a reported failure (core.setFailed called), whatever the outcome of
\* each git command and of the provider's stream.
Claim_C15_Terminates ==
    <>(pc = "done" /\ (outputs # <<>> \/ failed # <<>>))

(***************************************************************************)
(* C16                                                                     *)
(***************************************************************************)
\* the bullets of the rendered changelog
Bullets == {i \in 1..Len(RenderedLines) : StartsWith(RenderedLines[i], "* ")}

\* run() has computed the version and rendered the changelog
Computed == gitTag # ""

\* C16: in either revision the version is calcTrueNewVersionFromLog of the raw
\* changelog text the provider returned and the rendered changelog is
\* filterChangeLog of that same text, and with no major marker the number of
\* bullets rendered is the number of (line, included type) matches counted
\* for the version.
Claim_C16_SameInput ==
    Computed
        => /\ newVersion = CalcOf(impl, oldVersion.s, dirtyChangelog, input)
           /\ stringChangelog = FilterOf(impl, dirtyChangelog, input).output
           /\ ~HasMajorLine => Cardinality(Bullets) = Cardinality(Matches)

(***************************************************************************)
(* C17                                                                     *)
(***************************************************************************)
\* the commands issued so far that change the repository or the remote
MutatingCommands == SelectSeq(commandsRun, IsMutatingCommand)

\* the tag <tagPrefix><newVersion>
ReleaseTag == input.tagPrefix \o newVersion

\* the four commands of a release, for the commit message template
\* `chore(release): {version}` every run is given
ReleaseCommands ==
    <<"git add .",
      "git commit -m \"chore(release): " \o ReleaseTag \o " [skip ci]\"",
      "git tag -a " \o ReleaseTag \o " -m \"" \o ReleaseTag \o "\"",
      "git push origin main --follow-tags">>

\* the commands issued are the first ones of the release, in order
InReleaseOrder ==
    /\ Len(MutatingCommands) <= Len(ReleaseCommands)
    /\ MutatingCommands = SubSeq(ReleaseCommands, 1, Len(MutatingCommands))

\* a failed add, commit or tag is the last command issued, and the run has
\* ended marked failed with no output set
FailureStops ==
    \A i \in 1..Len(commandsRun) :
        (/\ IsMutatingCommand(commandsRun[i])
         /\ ArrayIncludes(failed, ExitMessage(commandsRun[i])))
            => /\ i = Len(commandsRun)
               /\ pc = "done"
               /\ outputs = <<>>

\* the version file is written only before the first of the four commands
WriteComesFirst == file.writes' # file.writes => MutatingCommands' = <<>>

\* C17: in every run the mutating side effects are issued in the order
\* version-file write, git add, git commit (message with {version} replaced
\* by the tag <tagPrefix><newVersion>), git tag (same tag), git push; a step
\* is issued only when the one before it succeeded, and when add, commit or
\* tag fails no later step is issued, the run is marked failed and no output
\* is set.
Thm_C17_EffectOrder ==
    /\ [](InReleaseOrder /\ FailureStops)
    /\ [][WriteComesFirst]_vars

\* the version file written, add done, the commit failed: the run is over
Wit_C17_EffectOrder ==
    /\ impl = "part_000"
    /\ file.writes # <<>>
    /\ MutatingCommands = SubSeq(ReleaseCommands, 1, 2)
    /\ failed = <<ExitMessage(ReleaseCommands[2])>>
    /\ pc = "done"
    /\ outputs = <<>>

(***************************************************************************)
(* C18                                                                     *)
(***************************************************************************)
\* run() is past the call of filterChangeLog
PastFilter ==
    pc \in {"update", "config_email", "config_name", "add", "commit", "tag",
            "push", "outputs", "summary", "done"}

\* the included-types list holds a name outside the canonical vocabulary
HasUnknownType == \E i \in 1..Len(IncludedList) : ~IsCanonical(IncludedList[i])

\* the same, the name being none that every object inherits with a length
\* that is not above 0
HasUnknownTypeWithoutBucket ==
    \E i \in 1..Len(IncludedList) :
        ~IsCanonical(IncludedList[i]) /\ IncludedList[i] \notin InheritedNoLength

\* C18 as claimed: when the included-types list holds any name outside the
\* canonical vocabulary, filterChangeLog throws whatever the changelog, so the
\* run ends in a reported failure before the version file is written and
\* before any git add, commit, tag or push.
Claim_C18_UnknownType ==
    HasUnknownType => (NoMutation /\ (PastFilter => EndedFailed))

\* C18 as amended: the same for a name outside the canonical vocabulary other
\* than toString, toLocaleString, valueOf and __proto__ (for these
\* typeOutputs[name].length > 0 is false and filterChangeLog throws only on a
\* line that holds `* <name>:`).
Thm_C18_UnknownType ==
    HasUnknownTypeWithoutBucket => (NoMutation /\ (PastFilter => EndedFailed))

\* included types feat,chore and an empty changelog: the run ends in the
\* catch block once filterChangeLog is called
Wit_C18_UnknownType ==
    /\ input.includedTypes = "feat,chore"
    /\ dirtyChangelog = ""
    /\ pc = "done"
    /\ failed = <<TypeErrorMessage>>
    /\ Len(commandsRun) = 2
    /\ NoMutation

(***************************************************************************)
(* C19                                                                     *)
(***************************************************************************)
\* (a1, a2, a3) is not lower than (b1, b2, b3) in lexicographic order
LexNotLower(a, b) ==
    \/ a[1] > b[1]
    \/ a[1] = b[1] /\ a[2] > b[2]
    \/ a[1] = b[1] /\ a[2] = b[2] /\ a[3] >= b[3]

\* C19: in src/unnamed/part_000, for positive bump intervals and a current
\* version of three non-negative integers, the version returned is never
\* lower than the current one in (major, minor, patch) lexicographic order,
\* and it is the current one exactly when no line holds the major marker or
\* `* <type>:` of an included type.
Thm_C19_Monotone ==
    (pc = "calc_done" /\ impl = "part_000"
        /\ PositiveInterval(input.minorVersionBumpInterval)
        /\ PositiveInterval(input.patchVersionBumpInterval))
        => LET parts == Split(newVersion, ".")
               new == [i \in 1..3 |-> ParseInt(parts[i]).n]
               current == [i \in 1..3 |-> CurrentPart(i)]
           IN  /\ Len(parts) = 3
               /\ \A i \in 1..3 : ParseInt(parts[i]).k = "int"
               /\ LexNotLower(new, current)
               /\ (new = current) <=> (~HasMajorLine /\ Matches = {})

\* a minor bump that lowers the patch segment: 2.5.1 becomes 2.6.0
Wit_C19_Monotone ==
    /\ pc = "calc_done"
    /\ impl = "part_000"
    /\ input.currentVersion = "2.5.1"
    /\ dirtyChangelog = "* feat: add x"
    /\ input.includedTypes = "feat,fix,build"
    /\ input.minorCommitTypes = "feat"
    /\ input.minorVersionBumpInterval = "1"
    /\ input.patchVersionBumpInterval = "5"
    /\ newVersion = "2.6.0"

====
